---- MODULE Spec2Model ----
(***************************************************************************)
(* Model of the Tadu crawler (src/server.js): one GET /crawl request.      *)
(*                                                                         *)
(* One action is one event-loop turn of the Node.js process: the           *)
(* completion of an HTTP attempt (axios.get resolving or rejecting) or the *)
(* firing of a retry timer, together with every promise continuation that  *)
(* runs in the same turn (catch blocks, p-limit's next(), Promise.all      *)
(* settling, the handler sending the response).                            *)
(***************************************************************************)
EXTENDS Integers, Sequences, FiniteSets, TLC

\* ---------------- CONFIG (src/server.js:12-14) ----------------
MAX_BOOK_WORKERS == 10
MAX_CHAPTER_WORKERS == 5
RETRY_TIMES == 3

\* ---------------- bounds of the model ----------------
\* longest listing page (number of a.bookImg links) explored by Spec
MaxLinks == 2
\* largest num_chapters explored by Spec
MaxChapters == 1
\* number of books on the listing page of SpecBooks (more than the book pool)
PoolBooks == 11
\* num_chapters of SpecChapters (more than the chapter pool)
PoolChapters == 6
\* most img elements on a book page explored by SpecCover
MaxImgs == 2
\* num_chapters of the two books crawled side by side in SpecPools (together more than one
\* chapter pool)
PairChapters == 3

VARIABLES
    page,         \* html of getBookIds: the ids in the a.bookImg links of the listing page, in
                  \* document order; <<>> once getBookIds has returned
    numChapters,  \* req.query.num_chapters
    html,         \* html of crawlBookInfo: the img elements and the og:image tag of a book page
    info,         \* info[b]: <<cover_image>> once crawlBookInfo has returned for book b
    flaky,        \* the URLs whose requests may fail (the others answer at the first attempt)
    hpc,          \* position of the /crawl handler: "listing", "books", "done"
    listSg,       \* safeGet call of getBookIds
    bookIds,      \* result of getBookIds
    book,         \* book[b]: the task of bookIds[b] in the book-level pool
    chap,         \* chap[b][i]: the task of chapter i in the chapter-level pool of book b
    reqs,         \* reqs[u]: number of axios.get calls issued for URL u
    exhausted,    \* URLs whose fetcher ran out of attempts
    faults,       \* <<u, kind>>: a request of URL u has failed in the network ("transport")
                  \* or was answered with a status other than 200 ("status")
    responses,    \* the responses sent on res, in order
    outOfOrder    \* which kinds of task ("book", "chapter") finished before a lower-numbered sibling

vars == <<page, numChapters, html, info, flaky, hpc, listSg, bookIds, book, chap, reqs, exhausted,
          faults, responses, outOfOrder>>

\* ---------------- book identifiers and URLs ----------------
\* A book id is the digit string captured by /\/book\/(\d+)\//, as a sequence of digits.
\* A link whose href does not match is the empty sequence.
NoMatch == <<>>

ListUrl == <<"store">>
MetaUrl(id) == <<"book", id>>
TitleUrl(id, i) == <<"title", id, i>>
ContentUrl(id, i) == <<"content", id, i>>

Range(s) == {s[j] : j \in 1..Len(s)}

Min(a, b) == IF a < b THEN a ELSE b

\* LexLess for sort((a, b) => a - b): the order of the numbers the digit strings denote
NumLess(a, b) ==
    \/ Len(a) < Len(b)
    \/ /\ Len(a) = Len(b)
       /\ \E k \in 1..Len(a) : a[k] < b[k] /\ \A j \in 1..(k - 1) : a[j] = b[j]

\* String comparison of Array.prototype.sort() without comparator: code-unit lexicographic
RECURSIVE LexLess(_, _)
LexLess(a, b) ==
    IF b = <<>> THEN FALSE
    ELSE IF a = <<>> THEN TRUE
    ELSE IF Head(a) # Head(b) THEN Head(a) < Head(b)
    ELSE LexLess(Tail(a), Tail(b))

\* SetAdd pushing onto an array instead of adding to a Set: duplicates are kept
RECURSIVE ArrayPush(_, _)
ArrayPush(links, acc) ==
    IF links = <<>> THEN acc
    ELSE ArrayPush(Tail(links), IF Head(links) = NoMatch THEN acc ELSE Append(acc, Head(links)))

\* ids.add(m[1]) over the links in document order: a Set keeps first insertion order
RECURSIVE SetAdd(_, _)
SetAdd(links, acc) ==
    IF links = <<>> THEN acc
    ELSE LET h == Head(links)
         IN  SetAdd(Tail(links),
                    IF h = NoMatch \/ h \in Range(acc) THEN acc ELSE Append(acc, h))

\* insertion of one element into a sorted sequence
RECURSIVE SortInsert(_, _)
SortInsert(x, s) ==
    IF s = <<>> THEN <<x>>
    ELSE IF LexLess(x, Head(s)) THEN <<x>> \o s
    ELSE <<Head(s)>> \o SortInsert(x, Tail(s))

RECURSIVE ArraySort(_)
ArraySort(s) == IF s = <<>> THEN <<>> ELSE SortInsert(Head(s), ArraySort(Tail(s)))

\* getBookIds, after the page has been fetched
getBookIds(links) == ArraySort(SetAdd(links, <<>>))

\* every URL one request can touch
AllUrls(links, n) ==
    {ListUrl}
    \cup {MetaUrl(id) : id \in Range(links) \ {NoMatch}}
    \cup {TitleUrl(id, i) : id \in Range(links) \ {NoMatch}, i \in 1..n}
    \cup {ContentUrl(id, i) : id \in Range(links) \ {NoMatch}, i \in 1..n}

\* ---------------- SAFE GET ----------------
\* state of one safeGet call: the loop variable and where the call stands
SgStart == [attempt |-> 1, phase |-> "inflight"]
SgNone == [attempt |-> 0, phase |-> "none"]

\* safeGetCatch with the loop condition attempt <= retries + 1
safeGetCatchOneMore(sg) ==
    IF sg.attempt < RETRY_TIMES + 1
    THEN [sg EXCEPT !.phase = "sleep"]
    ELSE [sg EXCEPT !.phase = "thrown"]

\* safeGetCatch without the delay and the loop: the first failure is thrown
safeGetCatchNoRetry(sg) == [sg EXCEPT !.phase = "thrown"]

\* catch block of safeGet: sleep if attempts remain, else leave the loop and throw
safeGetCatch(sg) ==
    IF sg.attempt < RETRY_TIMES
    THEN [sg EXCEPT !.phase = "sleep"]
    ELSE [sg EXCEPT !.phase = "thrown"]

\* the timer of the catch block fires: attempt++ and the next axios.get
safeGetRetry(sg) == [attempt |-> sg.attempt + 1, phase |-> "inflight"]

\* ---------------- the environment ----------------
\* Number of h4 elements on the first page of chapter i (a fixture: 1, 2, 0, 1, ...)
H4Count(i) == i % 3

\* data.status values the content endpoint can answer with
ContentStatuses == {200, 500}

Bump(f, S) == [u \in DOMAIN f |-> IF u \in S THEN f[u] + 1 ELSE f[u]]

\* ---------------- p-limit ----------------
\* pLimitLaunch without a limit: every task runs at once
pLimitLaunchAll(n, concurrency) == 1..n

\* limit(fn) called for tasks 1..n in one turn: the first `concurrency` run, the rest queue
pLimitLaunch(n, concurrency) == 1..Min(n, concurrency)

\* pLimitNext for a pool whose queue is cleared once a task has rejected
pLimitNextCancelled(tasks) ==
    LET queued == {j \in 1..Len(tasks) : tasks[j].st = "queued"}
    IN  IF queued = {} \/ \E j \in 1..Len(tasks) : tasks[j].st = "failed"
        THEN 0
        ELSE CHOOSE j \in queued : \A q \in queued : j <= q

\* pLimitNext for a pool whose next() is never called: the queue is not drained
pLimitNextNever(tasks) == 0

\* next(): a task settled, the head of the FIFO queue (if any) is run; 0 when the queue is empty
pLimitNext(tasks) ==
    LET queued == {j \in 1..Len(tasks) : tasks[j].st = "queued"}
    IN  IF queued = {} THEN 0 ELSE CHOOSE j \in queued : \A q \in queued : j <= q

\* ---------------- LẤY CHƯƠNG ----------------
\* DefaultTitle numbering the chapters from 0
DefaultTitleZeroBased(chapterIndex) == <<"Chuong", chapterIndex - 1>>

\* `Chương ${chapterIndex}`
DefaultTitle(chapterIndex) == <<"Chuong", chapterIndex>>

\* title selection of crawlChapterTitle on a parsed page with h4s h4 elements
SelectTitle(h4s, chapterIndex) ==
    IF h4s >= 2 THEN <<"h4", 2>>
    ELSE IF h4s >= 1 THEN <<"h4", 1>>
    ELSE DefaultTitle(chapterIndex)

\* ChapterIndices without the "+ 1": the indices 0..n-1
ChapterIndicesZeroBased(n) == [j \in 1..(IF n > 0 THEN n ELSE 0) |-> j - 1]

\* Array.from({ length: n }, (_, i) => i + 1): the index of the task at (1-based) position j
ChapterIndices(n) == [j \in 1..(IF n > 0 THEN n ELSE 0) |-> (j - 1) + 1]

\* the chapter task at a position of the chapter pool
ChapterQueued(i) ==
    [st |-> "queued", index |-> i, attempt |-> 0, sg |-> SgNone, title |-> <<>>, content |-> ""]

\* the task runs: crawlChapterTitle issues its first request
ChapterRun(t) == [t EXCEPT !.st = "title", !.attempt = 1, !.sg = SgStart]

\* return { index: i, title, content }
ChapterRecord(t) == [index |-> t.index, title |-> t.title, content |-> t.content]

\* Promise.all over the chapter tasks: the values in the order of the input array
ChaptersResult(tasks) == [j \in 1..Len(tasks) |-> ChapterRecord(tasks[j])]

\* LaunchChapters with one pLimit(MAX_CHAPTER_WORKERS) shared by all the books: only the
\* slots that the chapters of the other books leave free are taken
LaunchChaptersShared(n) ==
    LET idx == ChapterIndices(n)
        busy == Cardinality({<<b, i>> \in (DOMAIN chap) \X (1..n) :
                                i \in DOMAIN chap[b]
                                /\ chap[b][i].st \notin {"queued", "done"}})
        run == pLimitLaunch(Len(idx), MAX_CHAPTER_WORKERS - busy)
    IN  [j \in 1..Len(idx) |->
            IF j \in run THEN ChapterRun(ChapterQueued(idx[j])) ELSE ChapterQueued(idx[j])]

\* LaunchChapters with the pool of the wrong constant, pLimit(MAX_BOOK_WORKERS)
LaunchChaptersBookLimit(n) ==
    LET idx == ChapterIndices(n)
        run == pLimitLaunch(Len(idx), MAX_BOOK_WORKERS)
    IN  [j \in 1..Len(idx) |->
            IF j \in run THEN ChapterRun(ChapterQueued(idx[j])) ELSE ChapterQueued(idx[j])]

\* crawlFirstNChapters(bookId, n) up to its await: the tasks are created and the pool launched
LaunchChapters(n) ==
    LET idx == ChapterIndices(n)
        run == pLimitLaunch(Len(idx), MAX_CHAPTER_WORKERS)
    IN  [j \in 1..Len(idx) |->
            IF j \in run THEN ChapterRun(ChapterQueued(idx[j])) ELSE ChapterQueued(idx[j])]

\* ---------------- cover image of crawlBookInfo ----------------
\* A string is a sequence of tokens ("https:", "/", a host name, a file name); the empty
\* string is <<>>. An attribute is <<>> when the element does not carry it, else <<value>>.
Empty == <<>>

\* String.prototype.startsWith
StartsWith(s, p) == Len(s) >= Len(p) /\ SubSeq(s, 1, Len(p)) = p

\* the string ends with p (a pattern closed by $)
EndsWith(s, p) == Len(s) >= Len(p) /\ SubSeq(s, Len(s) - Len(p) + 1, Len(s)) = p

\* String.prototype.includes
Includes(s, p) == \E k \in 1..(Len(s) - Len(p) + 1) : SubSeq(s, k, k + Len(p) - 1) = p

\* host names matching media\d+\.tadu\.com
MediaHosts == {"media3.tadu.com"}

\* /https:\/\/media\d+\.tadu\.com\/?\/?$/.test(s): not anchored at the start
BareMediaHost(s) ==
    \E h \in MediaHosts, k \in 0..2 :
        EndsWith(s, <<"https:", "/", "/", h>> \o [j \in 1..k |-> "/"])

\* attr(name) || ""
AttrOrEmpty(a) == IF Len(a) = 0 THEN Empty ELSE a[1]

\* RawImage taking the src of the first img before any data-src
RawImageSrcFirst(doc) ==
    LET direct == IF Len(doc.imgs) > 0 THEN AttrOrEmpty(doc.imgs[1].src) ELSE Empty
        lazy == SelectSeq(doc.imgs, LAMBDA e : Len(e.dataSrc) > 0)
    IN  IF Len(direct) = 0 /\ Len(lazy) > 0 THEN AttrOrEmpty(lazy[1].dataSrc) ELSE direct

\* img_url before normalization: the data-src of the first img[data-src]; when that is
\* empty (or no img has the attribute) the src of the first img
RawImage(doc) ==
    LET lazy == SelectSeq(doc.imgs, LAMBDA e : Len(e.dataSrc) > 0)
        first == IF Len(lazy) > 0 THEN AttrOrEmpty(lazy[1].dataSrc) ELSE Empty
    IN  IF Len(first) = 0
        THEN IF Len(doc.imgs) > 0 THEN AttrOrEmpty(doc.imgs[1].src) ELSE Empty
        ELSE first

\* "//..." gets the scheme, "/..." gets scheme and host
Normalize(s) ==
    IF StartsWith(s, <<"/", "/">>) THEN <<"https:">> \o s
    ELSE IF StartsWith(s, <<"/">>) THEN <<"https:", "/", "/", "www.tadu.com">> \o s
    ELSE s

\* the test that sends crawlBookInfo to the og:image tag
IsPlaceholder(s) == Len(s) = 0 \/ BareMediaHost(s) \/ Includes(s, <<"coverbg.jpg">>)

\* const metaImg = $('meta[property="og:image"]').attr("content")
MetaImg(doc) == doc.og

\* cover_image of the record returned by crawlBookInfo
CoverImage(doc) ==
    LET img_url == Normalize(RawImage(doc))
        metaImg == MetaImg(doc)
    IN  IF IsPlaceholder(img_url) /\ Len(metaImg) > 0 /\ Len(metaImg[1]) > 0
        THEN metaImg[1]
        ELSE img_url

\* ---------------- book tasks ----------------
\* the task of bookId, waiting in the book pool
BookQueued(bookId) == [st |-> "queued", id |-> bookId, sg |-> SgNone, chapters |-> <<>>]
\* the task runs: crawlBookInfo issues its first request
BookRun(t) == [t EXCEPT !.st = "meta", !.sg = SgStart]

\* the record returned by the book task (its cover_image is held in info)
BookInfo(bookId, chapters) == [id |-> bookId, chapters |-> chapters]

\* Results collected with unshift: the values in the reverse order of bookIds
ResultsReversed(tasks) ==
    [b \in 1..Len(tasks) |->
        BookInfo(tasks[Len(tasks) + 1 - b].id, tasks[Len(tasks) + 1 - b].chapters)]

\* Promise.all over the book tasks: the values in the order of bookIds
Results(tasks) == [b \in 1..Len(tasks) |-> BookInfo(tasks[b].id, tasks[b].chapters)]

\* bookIds.map(bookId => limit(...)): the book pool is launched
LaunchBooks(ids) ==
    LET run == pLimitLaunch(Len(ids), MAX_BOOK_WORKERS)
    IN  [b \in 1..Len(ids) |->
            IF b \in run THEN BookRun(BookQueued(ids[b])) ELSE BookQueued(ids[b])]

\* responses of the handler
NotFound == [status |-> 404, error |-> "not found"]
ServerError(url) == [status |-> 500, error |-> url]
Ok(results) == [status |-> 200, results |-> results]

\* ---------------- settling of tasks ----------------
\* PromiseAllBooks waiting for every task to settle and keeping the fulfilled ones
\* (Promise.allSettled)
PromiseAllSettledBooks(tasks, b) ==
    IF \A j \in 1..Len(tasks) : tasks[j].st \in {"done", "failed"}
    THEN <<Ok(Results(tasks))>>
    ELSE <<>>

\* await Promise.all(...) of the handler once task b has settled: rejected with the error
\* of a failed task, fulfilled with the results when every task is done, pending otherwise.
\* The value is what the handler then sends: nothing, res.json or the catch block's 500.
PromiseAllBooks(tasks, b) ==
    IF tasks[b].st = "failed" THEN <<ServerError(MetaUrl(tasks[b].id))>>
    ELSE IF \A j \in 1..Len(tasks) : tasks[j].st = "done" THEN <<Ok(Results(tasks))>>
    ELSE <<>>

\* HandlerResumes for a handler that answers every time a task reports an outcome
HandlerResumesEveryTime(pc, answer) == answer # <<>>

\* the handler goes on past its await only the first time Promise.all settles
HandlerResumes(pc, answer) == pc = "books" /\ answer # <<>>

\* The book task b settles ("done" with its chapters, or "failed"): p-limit runs the next
\* queued book, Promise.all may settle and the handler answers if it is still waiting.
BookSettles(b, st, chapters, chap0, reqs0, ooo) ==
    LET b1 == [book EXCEPT ![b] = [@ EXCEPT !.st = st, !.sg = SgNone, !.chapters = chapters]]
        q == pLimitNext(b1)
        b2 == IF q = 0 THEN b1 ELSE [b1 EXCEPT ![q] = BookRun(b1[q])]
        early == IF \E j \in 1..(b - 1) : b1[j].st \notin {"done", "failed"}
                 THEN {"book"} ELSE {}
        answer == PromiseAllBooks(b2, b)
    IN  /\ book' = b2
        /\ chap' = chap0
        /\ reqs' = IF q = 0 THEN reqs0 ELSE Bump(reqs0, {MetaUrl(b1[q].id)})
        /\ outOfOrder' = outOfOrder \cup ooo \cup early
        /\ IF HandlerResumes(hpc, answer)
           THEN /\ hpc' = "done"
                /\ responses' = responses \o answer
           ELSE UNCHANGED <<hpc, responses>>

\* The chapter task at position i of book b returns its record (t is its final state):
\* p-limit runs the next queued chapter; when all have returned crawlFirstNChapters
\* returns and the book task is done.
ChapterReturns(b, i, t) ==
    LET c1 == [chap[b] EXCEPT ![i] = t]
        q == pLimitNext(c1)
        c2 == IF q = 0 THEN c1 ELSE [c1 EXCEPT ![q] = ChapterRun(c1[q])]
        r1 == IF q = 0 THEN reqs ELSE Bump(reqs, {TitleUrl(book[b].id, c1[q].index)})
        early == IF \E j \in 1..(i - 1) : c1[j].st # "done" THEN {"chapter"} ELSE {}
    IN  IF \A j \in 1..Len(c2) : c2[j].st = "done"
        THEN BookSettles(b, "done", ChaptersResult(c2), [chap EXCEPT ![b] = c2], r1, early)
        ELSE /\ chap' = [chap EXCEPT ![b] = c2]
             /\ reqs' = r1
             /\ outOfOrder' = outOfOrder \cup early
             /\ UNCHANGED <<book, hpc, responses>>

\* ---------------- getBookIds / the handler up to the fan-out ----------------
\* an attempt on the listing page fails
ListingFails ==
    /\ hpc = "listing" /\ listSg.phase = "inflight" /\ ListUrl \in flaky
    /\ listSg' = safeGetCatch(listSg)
    /\ IF listSg'.phase = "thrown"
       THEN /\ hpc' = "done"
            /\ responses' = Append(responses, ServerError(ListUrl))
            /\ exhausted' = exhausted \cup {ListUrl}
       ELSE UNCHANGED <<hpc, responses, exhausted>>
    /\ faults' = faults \cup {<<ListUrl, "transport">>}
    /\ UNCHANGED <<page, numChapters, html, info, flaky, bookIds, book, chap, reqs, outOfOrder>>

\* the retry delay of the listing fetch is over
ListingRetries ==
    /\ hpc = "listing" /\ listSg.phase = "sleep"
    /\ listSg' = safeGetRetry(listSg)
    /\ reqs' = Bump(reqs, {ListUrl})
    /\ UNCHANGED <<faults, page, numChapters, html, info, flaky, hpc, bookIds, book, chap, exhausted,
                   responses, outOfOrder>>

\* the listing page arrives: 404 when it has no book id, else the book pool is launched
ListingSucceeds ==
    /\ hpc = "listing" /\ listSg.phase = "inflight"
    /\ listSg' = [listSg EXCEPT !.phase = "returned"]
    /\ bookIds' = getBookIds(page)
    /\ IF Len(bookIds') = 0
       THEN /\ hpc' = "done"
            /\ responses' = Append(responses, NotFound)
            /\ UNCHANGED <<book, chap, reqs>>
       ELSE /\ hpc' = "books"
            /\ book' = LaunchBooks(bookIds')
            /\ chap' = [b \in 1..Len(bookIds') |-> <<>>]
            /\ reqs' = Bump(reqs, {MetaUrl(book'[b].id) :
                                     b \in {j \in 1..Len(book') : book'[j].st = "meta"}})
            /\ UNCHANGED responses
    /\ page' = <<>>
    /\ info' = [b \in 1..Len(bookIds') |-> <<>>]
    /\ UNCHANGED <<faults, numChapters, html, flaky, exhausted, outOfOrder>>

\* ---------------- LẤY THÔNG TIN BOOK ----------------
\* info.chapters = await crawlFirstNChapters(bookId, numChapters) in the task of book b:
\* the chapter pool is launched; without chapters the task is done at once
CrawlFirstNChaptersStarts(b) ==
    LET c == LaunchChapters(numChapters)
        started == {TitleUrl(book[b].id, c[j].index) :
                       j \in {k \in 1..Len(c) : c[k].st = "title"}}
    IN  IF Len(c) = 0
        THEN BookSettles(b, "done", <<>>, chap, reqs, {})
        ELSE /\ book' = [book EXCEPT ![b].st = "chapters", ![b].sg = SgNone]
             /\ chap' = [chap EXCEPT ![b] = c]
             /\ reqs' = Bump(reqs, started)
             /\ UNCHANGED <<hpc, responses, outOfOrder>>

\* BookTaskRejects for a book task that catches the error of crawlBookInfo and goes on
\* with the chapters
BookTaskCatches(b) ==
    /\ exhausted' = exhausted \cup {MetaUrl(book[b].id)}
    /\ CrawlFirstNChaptersStarts(b)

\* crawlBookInfo throws in the task of book b: the task rejects before crawlFirstNChapters
BookTaskRejects(b) ==
    /\ exhausted' = exhausted \cup {MetaUrl(book[b].id)}
    /\ BookSettles(b, "failed", <<>>, chap, reqs, {})

\* an attempt on the page of book b fails; after the last one crawlBookInfo throws
MetaFails(b) ==
    /\ book[b].st = "meta" /\ book[b].sg.phase = "inflight"
    /\ MetaUrl(book[b].id) \in flaky
    /\ LET sg == safeGetCatch(book[b].sg)
       IN  IF sg.phase = "thrown"
           THEN BookTaskRejects(b)
           ELSE /\ book' = [book EXCEPT ![b].sg = sg]
                /\ UNCHANGED <<chap, reqs, exhausted, hpc, responses, outOfOrder>>
    /\ faults' = faults \cup {<<MetaUrl(book[b].id), "transport">>}
    /\ UNCHANGED <<page, numChapters, html, info, flaky, listSg, bookIds>>

\* the retry delay of the fetch of book b's page is over
MetaRetries(b) ==
    /\ book[b].st = "meta" /\ book[b].sg.phase = "sleep"
    /\ book' = [book EXCEPT ![b].sg = safeGetRetry(@)]
    /\ reqs' = Bump(reqs, {MetaUrl(book[b].id)})
    /\ UNCHANGED <<faults, page, numChapters, html, info, flaky, hpc, listSg, bookIds, chap, exhausted,
                   responses, outOfOrder>>

\* the page of book b arrives: crawlBookInfo returns and crawlFirstNChapters is called
MetaSucceeds(b) ==
    /\ book[b].st = "meta" /\ book[b].sg.phase = "inflight"
    /\ CrawlFirstNChaptersStarts(b)
    /\ info' = [info EXCEPT ![b] = <<CoverImage(html)>>]
    /\ UNCHANGED <<faults, page, numChapters, html, flaky, listSg, bookIds, exhausted>>

\* ---------------- crawlChapterTitle ----------------
\* catch block of crawlChapterTitle: always sleeps
TitleCatch(t) == [t EXCEPT !.st = "titleSleep", !.sg = SgNone]

\* crawlChapterContent is called with the title in hand
ContentStart(t, title) ==
    [t EXCEPT !.st = "content", !.attempt = 1, !.sg = SgStart, !.title = title]

\* the loop of crawlChapterTitle goes on after the sleep of its catch block
TitleLoops(t) == t.attempt < RETRY_TIMES

\* an attempt on the title page fails; after safeGet's last one crawlChapterTitle catches
TitleFails(b, i) ==
    /\ chap[b][i].st = "title" /\ chap[b][i].sg.phase = "inflight"
    /\ TitleUrl(book[b].id, chap[b][i].index) \in flaky
    /\ LET t == chap[b][i]
           sg == safeGetCatch(t.sg)
       IN  chap' = [chap EXCEPT ![b][i] =
                       IF sg.phase = "thrown" THEN TitleCatch(t) ELSE [t EXCEPT !.sg = sg]]
    /\ faults' = faults \cup {<<TitleUrl(book[b].id, chap[b][i].index), "transport">>}
    /\ UNCHANGED <<page, numChapters, html, info, flaky, hpc, listSg, bookIds, book, reqs, exhausted,
                   responses, outOfOrder>>

\* the retry delay of safeGet on the title page is over
TitleRetries(b, i) ==
    /\ chap[b][i].st = "title" /\ chap[b][i].sg.phase = "sleep"
    /\ chap' = [chap EXCEPT ![b][i].sg = safeGetRetry(@)]
    /\ reqs' = Bump(reqs, {TitleUrl(book[b].id, chap[b][i].index)})
    /\ UNCHANGED <<faults, page, numChapters, html, info, flaky, hpc, listSg, bookIds, book, exhausted,
                   responses, outOfOrder>>

\* the title page arrives: the title is selected and the content fetch starts
TitleSucceeds(b, i) ==
    /\ chap[b][i].st = "title" /\ chap[b][i].sg.phase = "inflight"
    /\ LET t == chap[b][i]
       IN  /\ chap' = [chap EXCEPT ![b][i] =
                          ContentStart(t, SelectTitle(H4Count(t.index), t.index))]
           /\ reqs' = Bump(reqs, {ContentUrl(book[b].id, t.index)})
    /\ UNCHANGED <<faults, page, numChapters, html, info, flaky, hpc, listSg, bookIds, book, exhausted,
                   responses, outOfOrder>>

\* the sleep of crawlChapterTitle's catch block is over: next round of the loop, or the
\* default title after the last round
TitleSleepEnds(b, i) ==
    /\ chap[b][i].st = "titleSleep"
    /\ LET t == chap[b][i]
       IN  IF TitleLoops(t)
           THEN /\ chap' = [chap EXCEPT ![b][i] =
                               [t EXCEPT !.st = "title", !.attempt = @ + 1, !.sg = SgStart]]
                /\ reqs' = Bump(reqs, {TitleUrl(book[b].id, t.index)})
                /\ UNCHANGED exhausted
           ELSE /\ chap' = [chap EXCEPT ![b][i] = ContentStart(t, DefaultTitle(t.index))]
                /\ reqs' = Bump(reqs, {ContentUrl(book[b].id, t.index)})
                /\ exhausted' = exhausted \cup {TitleUrl(book[b].id, t.index)}
    /\ UNCHANGED <<faults, page, numChapters, html, info, flaky, hpc, listSg, bookIds, book, responses,
                   outOfOrder>>

\* ---------------- crawlChapterContent ----------------
\* catch block of crawlChapterContent: always sleeps
ContentCatch(t) == [t EXCEPT !.st = "contentSleep", !.sg = SgNone]

\* the chapter task has its content and returns
ChapterDone(t, content) ==
    [t EXCEPT !.st = "done", !.attempt = 0, !.sg = SgNone, !.content = content]

\* ContentLoops with the loop condition attempt <= RETRY_TIMES + 1
ContentLoopsOneMore(t) == t.attempt < RETRY_TIMES + 1

\* the loop of crawlChapterContent goes on after the sleep of its catch block
ContentLoops(t) == t.attempt < RETRY_TIMES

\* an attempt on the content endpoint fails; after safeGet's last one crawlChapterContent catches
ContentFails(b, i) ==
    /\ chap[b][i].st = "content" /\ chap[b][i].sg.phase = "inflight"
    /\ ContentUrl(book[b].id, chap[b][i].index) \in flaky
    /\ LET t == chap[b][i]
           sg == safeGetCatch(t.sg)
       IN  chap' = [chap EXCEPT ![b][i] =
                       IF sg.phase = "thrown" THEN ContentCatch(t) ELSE [t EXCEPT !.sg = sg]]
    /\ faults' = faults \cup {<<ContentUrl(book[b].id, chap[b][i].index), "transport">>}
    /\ UNCHANGED <<page, numChapters, html, info, flaky, hpc, listSg, bookIds, book, reqs, exhausted,
                   responses, outOfOrder>>

\* the retry delay of safeGet on the content endpoint is over
ContentRetries(b, i) ==
    /\ chap[b][i].st = "content" /\ chap[b][i].sg.phase = "sleep"
    /\ chap' = [chap EXCEPT ![b][i].sg = safeGetRetry(@)]
    /\ reqs' = Bump(reqs, {ContentUrl(book[b].id, chap[b][i].index)})
    /\ UNCHANGED <<faults, page, numChapters, html, info, flaky, hpc, listSg, bookIds, book, exhausted,
                   responses, outOfOrder>>

\* the content endpoint answers: with status 200 the chapter task returns its record, with
\* another status crawlChapterContent throws into its own catch block
ContentAnswers(b, i) ==
    /\ chap[b][i].st = "content" /\ chap[b][i].sg.phase = "inflight"
    /\ \E status \in ContentStatuses :
          LET t == chap[b][i]
          IN  IF status # 200
              THEN /\ ContentUrl(book[b].id, t.index) \in flaky
                   /\ chap' = [chap EXCEPT ![b][i] = ContentCatch(t)]
                   /\ faults' = faults \cup {<<ContentUrl(book[b].id, t.index), "status">>}
                   /\ UNCHANGED <<book, reqs, hpc, responses, outOfOrder>>
              ELSE /\ ChapterReturns(b, i, ChapterDone(t, "text"))
                   /\ UNCHANGED faults
    /\ UNCHANGED <<page, numChapters, html, info, flaky, listSg, bookIds, exhausted>>

\* the sleep of crawlChapterContent's catch block is over: next round of the loop, or the
\* empty content after the last round
ContentSleepEnds(b, i) ==
    /\ chap[b][i].st = "contentSleep"
    /\ LET t == chap[b][i]
       IN  IF ContentLoops(t)
           THEN /\ chap' = [chap EXCEPT ![b][i] =
                               [t EXCEPT !.st = "content", !.attempt = @ + 1, !.sg = SgStart]]
                /\ reqs' = Bump(reqs, {ContentUrl(book[b].id, t.index)})
                /\ UNCHANGED <<book, exhausted, hpc, responses, outOfOrder>>
           ELSE /\ exhausted' = exhausted \cup {ContentUrl(book[b].id, t.index)}
                /\ ChapterReturns(b, i, ChapterDone(t, ""))
    /\ UNCHANGED <<faults, page, numChapters, html, info, flaky, listSg, bookIds>>

\* ---------------- specifications ----------------
\* attribute values of the book pages: "", "//media3.tadu.com/",
\* "https://media3.tadu.com/a.jpg", "/coverbg.jpg", "/b.jpg"
UrlValues ==
    {Empty,
     <<"/", "/", "media3.tadu.com", "/">>,
     <<"https:", "/", "/", "media3.tadu.com", "/", "a.jpg">>,
     <<"/", "coverbg.jpg">>,
     <<"/", "b.jpg">>}

\* an attribute: absent or carrying one of the values
Attrs(values) == {<<>>} \cup {<<v>> : v \in values}

\* the img elements
Imgs == [dataSrc : Attrs(UrlValues), src : Attrs(UrlValues)]

\* book pages of at most n img elements, with or without an og:image tag
BookPages(n) ==
    [imgs : UNION {[1..m -> Imgs] : m \in 0..n},
     og : Attrs({Empty, <<"https:", "/", "/", "cdn.tadu.com", "/", "og.jpg">>})]

\* the book page served in the specifications that are not about the cover image
PlainPage ==
    [imgs |-> <<[dataSrc |-> <<>>,
                 src |-> <<<<"https:", "/", "/", "media3.tadu.com", "/", "a.jpg">>>>]>>,
     og |-> <<>>]

Ids == {<<5, 0>>, <<6>>}

\* listing pages of at most n links
Pages(n) == UNION {[1..m -> Ids \cup {NoMatch}] : m \in 0..n}

\* the state once the handler has called getBookIds and the first request is out
Start(links, n, fl) ==
    /\ page = links
    /\ numChapters = n
    /\ flaky = fl
    /\ hpc = "listing"
    /\ listSg = SgStart
    /\ bookIds = <<>>
    /\ book = <<>>
    /\ chap = <<>>
    /\ reqs = [u \in AllUrls(links, n) |-> IF u = ListUrl THEN 1 ELSE 0]
    /\ exhausted = {}
    /\ faults = {}
    /\ responses = <<>>
    /\ outOfOrder = {}
    /\ info = <<>>

\* the two URLs of one chapter
ChapterUrls(id, i) == {TitleUrl(id, i), ContentUrl(id, i)}

\* Spec: the listing and every book page may fail, or one chapter of one book and the
\* pages of the other books
FlakySets(links, n) ==
    LET ids == Range(links) \ {NoMatch}
    IN  {{ListUrl} \cup {MetaUrl(id) : id \in ids}}
        \cup {ChapterUrls(id, i) \cup {MetaUrl(o) : o \in ids \ {id}} : id \in ids, i \in 1..n}

Init ==
    \E links \in Pages(MaxLinks), n \in 0..MaxChapters :
        \E fl \in FlakySets(links, n) : Start(links, n, fl) /\ html = PlainPage

\* SpecBooks: a listing of PoolBooks books (in descending order) and no chapters; the
\* listing, the first book and the last book may fail
IdOf(j) == <<j \div 10, j % 10>>

InitBooks ==
    /\ Start([j \in 1..PoolBooks |-> IdOf(PoolBooks + 1 - j)], 0,
             {ListUrl, MetaUrl(IdOf(1)), MetaUrl(IdOf(PoolBooks))})
    /\ html = PlainPage

\* SpecChapters: one book of up to PoolChapters chapters; the listing and the book page
\* may fail, or one URL of the first or of the last chapter
InitChapters ==
    \E n \in 0..PoolChapters :
        \E fl \in {{ListUrl, MetaUrl(<<6>>)}}
                  \cup {{u} : u \in ChapterUrls(<<6>>, 1) \cup ChapterUrls(<<6>>, n)} :
            Start(<<<<6>>>>, n, fl) /\ html = PlainPage

\* SpecLive: the page has PoolBooks books without chapters, and the listing and the first
\* book may fail; or it has one book of PoolChapters chapters, and the title of the first
\* chapter may fail; or it has one book of one chapter, and the book page or the content
\* of the chapter may fail
InitLive ==
    \/ /\ Start([j \in 1..PoolBooks |-> IdOf(j)], 0, {ListUrl, MetaUrl(IdOf(1))})
       /\ html = PlainPage
    \/ Start(<<<<6>>>>, PoolChapters, {TitleUrl(<<6>>, 1)}) /\ html = PlainPage
    \/ \E u \in {MetaUrl(<<6>>), ContentUrl(<<6>>, 1)} :
          Start(<<<<6>>>>, 1, {u}) /\ html = PlainPage

\* SpecCancel: two books more than the book pool holds and no chapters; the first book and
\* the last one may fail
InitCancel ==
    /\ Start([j \in 1..(MAX_BOOK_WORKERS + 2) |-> IdOf(j)], 0,
             {MetaUrl(IdOf(1)), MetaUrl(IdOf(MAX_BOOK_WORKERS + 2))})
    /\ html = PlainPage

\* SpecPools: no request fails; two books of PairChapters chapters each, or one book of
\* PoolChapters chapters, or PoolBooks books without chapters
InitPools ==
    \/ Start(<<<<5, 0>>, <<6>>>>, PairChapters, {}) /\ html = PlainPage
    \/ Start(<<<<6>>>>, PoolChapters, {}) /\ html = PlainPage
    \/ Start([j \in 1..PoolBooks |-> IdOf(j)], 0, {}) /\ html = PlainPage

\* SpecCover: one book without chapters, no request fails; the book page is any page of
\* at most MaxImgs img elements
InitCover == \E doc \in BookPages(MaxImgs) : Start(<<<<6>>>>, 0, {}) /\ html = doc

Next ==
    \/ ListingFails
    \/ ListingRetries
    \/ ListingSucceeds
    \/ \E b \in DOMAIN book : MetaFails(b)
    \/ \E b \in DOMAIN book : MetaRetries(b)
    \/ \E b \in DOMAIN book : MetaSucceeds(b)
    \/ \E b \in DOMAIN chap : \E i \in DOMAIN chap[b] : TitleFails(b, i)
    \/ \E b \in DOMAIN chap : \E i \in DOMAIN chap[b] : TitleRetries(b, i)
    \/ \E b \in DOMAIN chap : \E i \in DOMAIN chap[b] : TitleSucceeds(b, i)
    \/ \E b \in DOMAIN chap : \E i \in DOMAIN chap[b] : TitleSleepEnds(b, i)
    \/ \E b \in DOMAIN chap : \E i \in DOMAIN chap[b] : ContentFails(b, i)
    \/ \E b \in DOMAIN chap : \E i \in DOMAIN chap[b] : ContentRetries(b, i)
    \/ \E b \in DOMAIN chap : \E i \in DOMAIN chap[b] : ContentAnswers(b, i)
    \/ \E b \in DOMAIN chap : \E i \in DOMAIN chap[b] : ContentSleepEnds(b, i)

\* with num_chapters = 0 no chapter task exists
NextBooks ==
    \/ ListingFails
    \/ ListingRetries
    \/ ListingSucceeds
    \/ \E b \in DOMAIN book : MetaFails(b)
    \/ \E b \in DOMAIN book : MetaRetries(b)
    \/ \E b \in DOMAIN book : MetaSucceeds(b)

\* crawlBookInfo on a page that arrives at the first attempt
NextCover ==
    \/ ListingSucceeds
    \/ \E b \in DOMAIN book : MetaSucceeds(b)

\* the listing page arrives at the first attempt and there are no chapters
NextCancel ==
    \/ ListingSucceeds
    \/ \E b \in DOMAIN book : MetaFails(b)
    \/ \E b \in DOMAIN book : MetaRetries(b)
    \/ \E b \in DOMAIN book : MetaSucceeds(b)

\* every request is answered at its first attempt, the content endpoint with status 200
NextPools ==
    \/ ListingSucceeds
    \/ \E b \in DOMAIN book : MetaSucceeds(b)
    \/ \E b \in DOMAIN chap : \E i \in DOMAIN chap[b] : TitleSucceeds(b, i)
    \/ \E b \in DOMAIN chap : \E i \in DOMAIN chap[b] : ContentAnswers(b, i)

Spec == Init /\ [][Next]_vars

SpecBooks == InitBooks /\ [][NextBooks]_vars

SpecChapters == InitChapters /\ [][Next]_vars

SpecCover == InitCover /\ [][NextCover]_vars

SpecCancel == InitCancel /\ [][NextCancel]_vars

SpecPools == InitPools /\ [][NextPools]_vars

\* every pending request is answered, fails or times out (axios timeout) and every timer
\* fires: the handler does not stand still while one of them is pending
SpecLive == InitLive /\ [][Next]_vars /\ WF_vars(Next)

\* ---------------- properties ----------------
FatalUrls == {ListUrl} \cup {MetaUrl(book[b].id) : b \in DOMAIN book}

Settled(b) == book[b].st \in {"done", "failed"}

\* C1: whatever the order in which the chapter tasks return, and whichever of them
\* absorbed failures, crawlFirstNChapters returns exactly numChapters records and the
\* record at (1-based) position j has index j.
C1_ChaptersIndexed ==
    \A b \in DOMAIN book :
        book[b].st = "done" =>
            /\ Len(book[b].chapters) = numChapters
            /\ \A j \in 1..numChapters : book[b].chapters[j].index = j

\* crawlFirstNChapters has returned all of PoolChapters chapters although a later chapter
\* returned before an earlier one and one fetch was absorbed
C1_Witness ==
    /\ numChapters = PoolChapters
    /\ \E b \in DOMAIN book : book[b].st = "done" /\ Len(book[b].chapters) = PoolChapters
    /\ "chapter" \in outOfOrder
    /\ exhausted # {}

\* C2: once the page fetch of any book has run out of attempts, the request has been
\* answered, by the 500 response only, and no results are ever delivered.
C2_MetaFailureFailsRequest ==
    (\E b \in DOMAIN book : MetaUrl(book[b].id) \in exhausted) =>
        /\ Len(responses) = 1
        /\ responses[1].status = 500
        /\ "results" \notin DOMAIN responses[1]

\* one book failed on its page while another one is done with all of its chapters
C2_Witness ==
    /\ \E b \in DOMAIN book : book[b].st = "failed" /\ MetaUrl(book[b].id) \in exhausted
    /\ \E b \in DOMAIN book : book[b].st = "done" /\ Len(book[b].chapters) = MaxChapters
    /\ Len(responses) = 1 /\ responses[1].status = 500

\* C3: chapter failures are absorbed. When no listing or book page fetch ran out of attempts
\* and every book task has settled, the answer is the 200 response, every book has
\* numChapters records, the title of a chapter whose title fetch ran out of attempts is
\* "Chuong <index>" and the content of one whose content fetch ran out is empty; and a 500
\* response only ever follows a listing or book page failure.
C3_ChapterFailuresAbsorbed ==
    /\ (/\ bookIds # <<>>
        /\ FatalUrls \cap exhausted = {}
        /\ \A b \in DOMAIN book : Settled(b))
       => /\ Len(responses) = 1
          /\ responses[1].status = 200
          /\ Len(responses[1].results) = Len(bookIds)
          /\ \A b \in DOMAIN book :
                LET r == responses[1].results[b]
                IN  /\ Len(r.chapters) = numChapters
                    /\ \A j \in 1..numChapters :
                          /\ TitleUrl(r.id, j) \in exhausted
                                => r.chapters[j].title = <<"Chuong", j>>
                          /\ ContentUrl(r.id, j) \in exhausted
                                => r.chapters[j].content = ""
    /\ \A k \in 1..Len(responses) :
          responses[k].status = 500 => FatalUrls \cap exhausted # {}

\* the 200 response has gone out although both fetches of one chapter ran out of attempts
C3_Witness ==
    /\ Len(responses) = 1 /\ responses[1].status = 200
    /\ \E b \in DOMAIN book : \E j \in 1..numChapters :
          /\ TitleUrl(book[b].id, j) \in exhausted
          /\ ContentUrl(book[b].id, j) \in exhausted

\* C4: the listing page and a book page are never requested more than 3 times, and their
\* fetch fails (the book task fails, the request is answered 500) exactly when the 3rd
\* request has failed.
C4_MetaAttempts ==
    /\ reqs[ListUrl] <= 3
    /\ ListUrl \in exhausted => reqs[ListUrl] = 3 /\ listSg.phase = "thrown"
    /\ \A b \in DOMAIN book :
          /\ reqs[MetaUrl(book[b].id)] <= 3
          /\ book[b].st = "failed" <=> MetaUrl(book[b].id) \in exhausted
          /\ book[b].st = "failed" => reqs[MetaUrl(book[b].id)] = 3

\* a book task has failed after exactly 3 requests of its page
C4_Witness ==
    \E b \in DOMAIN book :
        /\ book[b].st = "failed"
        /\ reqs[MetaUrl(book[b].id)] = 3
        /\ MetaUrl(book[b].id) \in exhausted

\* C5: a chapter title or content fetch that ran out of attempts on network failures alone
\* has requested its URL exactly 3 times.
C5_ChapterAttempts ==
    \A b \in DOMAIN book : \A j \in 1..numChapters :
        /\ TitleUrl(book[b].id, j) \in exhausted => reqs[TitleUrl(book[b].id, j)] = 3
        /\ (/\ ContentUrl(book[b].id, j) \in exhausted
            /\ <<ContentUrl(book[b].id, j), "status">> \notin faults)
           => reqs[ContentUrl(book[b].id, j)] = 3

\* the distinct identifiers matched on a listing page
DistinctIds(links) == Range(links) \ {NoMatch}

\* C6: when the listing page arrives with k distinct identifiers, k = 0 gives the not-found
\* answer and k > 0 gives k book tasks, one per identifier; the 200 response carries one
\* record per book id, and it is the answer once every book task is done.
C6_OneRecordPerId ==
    /\ [][(listSg.phase = "inflight" /\ listSg'.phase = "returned") =>
            LET k == Cardinality(DistinctIds(page))
            IN  /\ k = 0 => responses' = <<NotFound>>
                /\ k > 0 => /\ responses' = <<>>
                            /\ Len(bookIds') = k
                            /\ Range(bookIds') = DistinctIds(page)
                            /\ Len(book') = k]_vars
    /\ [](/\ (bookIds # <<>> /\ \A b \in DOMAIN book : book[b].st = "done")
                => Len(responses) = 1 /\ responses[1].status = 200
           /\ \A n \in 1..Len(responses) :
                responses[n].status = 200 =>
                    /\ Len(responses[n].results) = Len(bookIds)
                    /\ Cardinality({responses[n].results[j].id :
                                       j \in 1..Len(bookIds)}) = Len(bookIds))

\* the 200 response carries one record for each of two books
C6_Witness ==
    /\ Len(bookIds) = 2
    /\ Len(responses) = 1 /\ responses[1].status = 200
    /\ {responses[1].results[j].id : j \in 1..Len(responses[1].results)} = Ids

\* C7: the results of the 200 response are in the order of bookIds, whatever the order in
\* which the book tasks started, waited in the pool and finished.
C7_ResultsInLaunchOrder ==
    \A n \in 1..Len(responses) :
        responses[n].status = 200 =>
            /\ DOMAIN responses[n].results = DOMAIN bookIds
            /\ \A j \in DOMAIN bookIds : responses[n].results[j].id = bookIds[j]

\* the 200 response for PoolBooks books, some of which finished before a book ahead of them
C7_Witness ==
    /\ Len(responses) = 1 /\ responses[1].status = 200
    /\ Len(responses[1].results) = PoolBooks
    /\ "book" \in outOfOrder

RunningBooks == {b \in DOMAIN book : book[b].st \in {"meta", "chapters"}}

\* C8: at most MAX_BOOK_WORKERS book tasks run at a time; tasks wait only while the pool is
\* full, and a waiting task starts only in a step in which a running one settles.
C8_BookPoolBound ==
    /\ [](/\ Cardinality(RunningBooks) <= MAX_BOOK_WORKERS
          /\ (\E b \in DOMAIN book : book[b].st = "queued")
                => Cardinality(RunningBooks) = MAX_BOOK_WORKERS)
    /\ [][\A b \in DOMAIN book :
            (book[b].st = "queued" /\ book'[b].st # "queued") =>
                \E c \in RunningBooks : book'[c].st \in {"done", "failed"}]_vars

\* the last book has left the queue and the pool is full again
C8_Witness ==
    /\ Len(book) = PoolBooks
    /\ book[PoolBooks].st = "meta"
    /\ Cardinality(RunningBooks) = MAX_BOOK_WORKERS

RunningChapters(b) ==
    {i \in DOMAIN chap[b] : chap[b][i].st \in {"title", "titleSleep", "content", "contentSleep"}}

FetchesInFlight(b) ==
    {i \in DOMAIN chap[b] : chap[b][i].sg.phase = "inflight"}

\* C9: in one crawlFirstNChapters call at most MAX_CHAPTER_WORKERS chapter tasks run at a
\* time, and at most that many title or content requests of the book are in flight.
C9_ChapterPoolBound ==
    \A b \in DOMAIN chap :
        /\ Cardinality(RunningChapters(b)) <= MAX_CHAPTER_WORKERS
        /\ Cardinality(FetchesInFlight(b)) <= MAX_CHAPTER_WORKERS

\* the last chapter has left the queue and MAX_CHAPTER_WORKERS requests are in flight,
\* titles and contents among them
C9_Witness ==
    \E b \in DOMAIN chap :
        /\ Len(chap[b]) = PoolChapters
        /\ chap[b][PoolChapters].st = "title"
        /\ Cardinality(FetchesInFlight(b)) = MAX_CHAPTER_WORKERS
        /\ \E i \in DOMAIN chap[b] : chap[b][i].st = "content"

\* C10: a request is answered at most once, and it has been answered once the handler is
\* done and once all its work has settled; the answer is 404 exactly when the listing was
\* fetched and has no book id, 500 exactly when the listing fetch or a book page fetch ran
\* out of attempts (and then it is sent at once), 200 otherwise.
C10_OneResponse ==
    /\ Len(responses) <= 1
    /\ hpc = "done" <=> Len(responses) = 1
    /\ (listSg.phase \in {"returned", "thrown"} /\ \A b \in DOMAIN book : Settled(b))
          => Len(responses) = 1
    /\ FatalUrls \cap exhausted # {} => Len(responses) = 1
    /\ Len(responses) = 1 =>
          LET status == responses[1].status
              empty == listSg.phase = "returned" /\ bookIds = <<>>
              fatal == FatalUrls \cap exhausted # {}
          IN  /\ status \in {200, 404, 500}
              /\ status = 404 <=> empty
              /\ status = 500 <=> fatal
              /\ status = 200 <=> ~empty /\ ~fatal

\* two book page fetches ran out of attempts and there is still one response only
C10_Witness ==
    /\ Cardinality({b \in DOMAIN book : MetaUrl(book[b].id) \in exhausted}) = 2
    /\ Len(responses) = 1 /\ responses[1].status = 500

\* C11: whenever the normalized image value is empty, matches the bare media-host pattern
\* or contains "coverbg.jpg", the cover image of the record is the value of the og:image
\* tag, and the empty string when the page has no such tag.
C11_PlaceholderReplaced ==
    \A b \in DOMAIN info :
        (Len(info[b]) > 0 /\ IsPlaceholder(Normalize(RawImage(html))))
            => info[b][1] = AttrOrEmpty(MetaImg(html))

\* the img elements of the page that carry a data-src attribute: $("img[data-src]")
LazyImgs(doc) == SelectSeq(doc.imgs, LAMBDA e : Len(e.dataSrc) > 0)

\* the page has an img with data-src and an img with src
HasBothSources(doc) ==
    /\ Len(LazyImgs(doc)) > 0
    /\ \E k \in DOMAIN doc.imgs : Len(doc.imgs[k].src) > 0

C13_SortedDistinctIds ==
    [][(listSg.phase = "inflight" /\ listSg'.phase = "returned") =>
          /\ \A id \in DistinctIds(page) :
                Cardinality({j \in 1..Len(bookIds') : bookIds'[j] = id}) = 1
          /\ Range(bookIds') \subseteq DistinctIds(page)
          /\ \A i, j \in 1..Len(bookIds') : i < j => LexLess(bookIds'[i], bookIds'[j])
          /\ DistinctIds(page) = {<<5, 0>>, <<6>>} => bookIds' = <<<<5, 0>>, <<6>>>>
          /\ DistinctIds(page) = {} => bookIds' = <<>> /\ exhausted' = exhausted]_vars

\* getBookIds has returned "50" before "6"
C13_Witness == listSg.phase = "returned" /\ bookIds = <<<<5, 0>>, <<6>>>>

\* one step of a safeGet call seen from outside: sg, n are the call and the number of
\* requests of its URL before the step, sgN, nN after it; over says that the call has
\* thrown in this step
SafeGetStep(sg, sgN, n, nN, over) ==
    /\ nN \in {n, n + 1}
    /\ nN = n + 1 => /\ sg.phase = "sleep"
                     /\ sgN = [attempt |-> sg.attempt + 1, phase |-> "inflight"]
    /\ (sg.phase = "sleep" /\ sgN # sg) => nN = n + 1
    /\ (sg.phase = "inflight" /\ sgN.phase = "sleep") =>
            sg.attempt < RETRY_TIMES /\ sgN.attempt = sg.attempt
    /\ over => sg.phase = "inflight" /\ sg.attempt = RETRY_TIMES

\* C14: in the safeGet calls on the listing page and on the book pages a request is issued
\* only when the delay that followed the failed previous attempt is over, a failed attempt
\* is followed by the delay exactly when its number is below RETRY_TIMES (the last failure
\* throws at once), and nothing is requested once the call has returned or thrown.
C14_SafeGetSequential ==
    /\ [][/\ SafeGetStep(listSg, listSg', reqs[ListUrl], reqs'[ListUrl],
                         listSg.phase # "thrown" /\ listSg'.phase = "thrown")
          /\ listSg.phase \in {"returned", "thrown"} =>
                listSg' = listSg /\ reqs'[ListUrl] = reqs[ListUrl]
          /\ \A b \in DOMAIN book :
                LET u == MetaUrl(book[b].id)
                IN  /\ book[b].st = "meta" =>
                          SafeGetStep(book[b].sg, book'[b].sg, reqs[u], reqs'[u],
                                      book'[b].st = "failed")
                    /\ book[b].st \in {"chapters", "done", "failed"} =>
                          reqs'[u] = reqs[u]]_vars
    /\ [](/\ listSg.phase \in {"inflight", "sleep", "returned", "thrown"}
          /\ reqs[ListUrl] = listSg.attempt
          /\ listSg.phase = "sleep" => listSg.attempt < RETRY_TIMES
          /\ \A b \in DOMAIN book :
                book[b].st = "meta" =>
                    /\ reqs[MetaUrl(book[b].id)] = book[b].sg.attempt
                    /\ book[b].sg.phase = "sleep" => book[b].sg.attempt < RETRY_TIMES)

\* a book page has answered at its second attempt, after one delay: two requests, and the
\* listing page, which answered at once, was requested once
C14_Witness ==
    /\ listSg = [attempt |-> 1, phase |-> "returned"] /\ reqs[ListUrl] = 1
    /\ \E b \in DOMAIN book :
          /\ book[b].st \in {"chapters", "done"}
          /\ reqs[MetaUrl(book[b].id)] = 2
          /\ <<MetaUrl(book[b].id), "transport">> \in faults

\* the requests issued so far for the chapters of book b
ChapterRequests(b) ==
    {<<u, reqs[u]>> : u \in UNION {ChapterUrls(book[b].id, i) : i \in 1..numChapters}}

\* C15: no book page is requested unless the listing fetch has returned a non-empty list of
\* ids (nothing but the listing page is ever requested otherwise); a chapter URL of a book
\* is requested only once crawlBookInfo has returned for that book; a book whose page
\* fetch has failed has no chapter task and no chapter request.
C15_StageOrder ==
    /\ (listSg.phase # "returned" \/ bookIds = <<>>) =>
            /\ book = <<>>
            /\ \A u \in DOMAIN reqs \ {ListUrl} : reqs[u] = 0
    /\ \A b \in DOMAIN book :
          /\ (\E r \in ChapterRequests(b) : r[2] > 0) =>
                /\ book[b].st \in {"chapters", "done"}
                /\ Len(info[b]) > 0
                /\ MetaUrl(book[b].id) \notin exhausted
                /\ reqs[MetaUrl(book[b].id)] > 0
          /\ book[b].st \in {"queued", "meta", "failed"} =>
                /\ chap[b] = <<>>
                /\ \A r \in ChapterRequests(b) : r[2] = 0

\* with one chapter asked per book, the page fetch of one book has failed and no chapter
\* URL of it was requested, while a chapter of the other book has been requested
C15_Witness ==
    /\ numChapters = 1 /\ Len(book) = 2
    /\ \E b, o \in DOMAIN book :
          /\ book[b].st = "failed"
          /\ \A r \in ChapterRequests(b) : r[2] = 0
          /\ \E r \in ChapterRequests(o) : r[2] > 0

\* the request is over: answered, and no book task is running or waiting
Quiescent == hpc = "done" /\ \A b \in DOMAIN book : Settled(b)

\* C16: every /crawl request is eventually answered, also with more books than the book
\* pool and more chapters than the chapter pool holds, and every task, queued ones
\* included, eventually settles.
C16_EventuallyResponds == <>(Len(responses) = 1) /\ <>Quiescent

\* a request for more books than the book pool holds is answered 200 with all of them
C16_Witness ==
    /\ Len(book) > MAX_BOOK_WORKERS
    /\ Quiescent
    /\ Len(responses) = 1 /\ responses[1].status = 200

\* C17: as long as the content endpoint of a chapter has only ever answered (no request of
\* it failed in the network), each round of crawlChapterContent has issued one request, a
\* non-200 answer being a failed round followed by the next one; when every round was
\* answered non-200 the URL was requested exactly RETRY_TIMES times and the chapter has
\* the empty content, its book task not having failed.
C17_BadStatusRetried ==
    \A b \in DOMAIN chap : \A i \in DOMAIN chap[b] :
        LET t == chap[b][i]
            u == ContentUrl(book[b].id, t.index)
        IN  <<u, "transport">> \notin faults =>
                /\ t.st \in {"content", "contentSleep"} => reqs[u] = t.attempt
                /\ t.st = "contentSleep" => <<u, "status">> \in faults
                /\ u \in exhausted =>
                      /\ reqs[u] = RETRY_TIMES
                      /\ <<u, "status">> \in faults
                      /\ t.st = "done" /\ t.content = ""
                      /\ book[b].st \in {"chapters", "done"}
                /\ (t.st = "done" /\ u \notin exhausted) =>
                      /\ t.content = "text"
                      /\ reqs[u] <= RETRY_TIMES
                      /\ <<u, "status">> \in faults => reqs[u] >= 2

\* the content endpoint of a chapter answered non-200 three times and never failed in the
\* network: three requests, empty content, and the request is answered 200
C17_Witness ==
    \E b \in DOMAIN chap : \E i \in DOMAIN chap[b] :
        LET u == ContentUrl(book[b].id, chap[b][i].index)
        IN  /\ u \in exhausted
            /\ <<u, "transport">> \notin faults
            /\ reqs[u] = 3
            /\ chap[b][i].content = ""
            /\ Len(responses) = 1 /\ responses[1].status = 200

\* the book tasks waiting in the book pool
QueuedBooks == {b \in DOMAIN book : book[b].st = "queued"}

\* C18: once the handler has answered, the response is never changed and no second one is
\* sent, whatever the book tasks do afterwards; nothing is cancelled: whenever a book task
\* settles after the answer while tasks are queued, the head of the queue is started and
\* requests its page, and a task that was running keeps its state until its own fetch ends.
C18_NoCancellation ==
    [][hpc = "done" =>
          /\ hpc' = "done" /\ responses' = responses
          /\ \A b \in DOMAIN book :
                (~Settled(b) /\ book'[b].st \in {"done", "failed"} /\ QueuedBooks # {}) =>
                    LET q == CHOOSE j \in QueuedBooks : \A k \in QueuedBooks : j <= k
                    IN  /\ book'[q].st = "meta"
                        /\ book'[q].sg = SgStart
                        /\ reqs'[MetaUrl(book[q].id)] = 1
          /\ \A b \in DOMAIN book :
                (book[b].st = "meta" /\ book'[b].st \notin {"done", "failed"}) =>
                    book'[b].st = "meta" /\ book'[b].sg.phase \in {"inflight", "sleep"}]_vars

\* the 500 response has gone out after the failure of the first book while a book is still
\* queued and others are running
C18_Witness ==
    /\ hpc = "done" /\ responses = <<ServerError(MetaUrl(book[1].id))>>
    /\ QueuedBooks # {}
    /\ RunningBooks # {}

\* the chapter tasks running in all the chapter pools together
AllRunningChapters == {<<b, i>> \in (DOMAIN chap) \X (1..numChapters) : i \in RunningChapters(b)}

\* the requests in flight: the listing page, book pages, chapter titles and contents
AllFetchesInFlight ==
    (IF listSg.phase = "inflight" THEN {<<0, 0>>} ELSE {})
    \cup {<<b, 0>> : b \in {j \in DOMAIN book : book[j].sg.phase = "inflight"}}
    \cup {<<b, i>> \in (DOMAIN chap) \X (1..numChapters) : i \in FetchesInFlight(b)}

\* C19: every crawlFirstNChapters call has a chapter pool of its own: a chapter task waits
\* only while MAX_CHAPTER_WORKERS chapters of its own book run, so the chapter tasks
\* running over all books are at most MAX_CHAPTER_WORKERS per running book; with at most
\* MAX_BOOK_WORKERS running books they, and the requests in flight, never exceed 50.
C19_NestedPoolBound ==
    /\ \A b \in DOMAIN chap :
          (\E i \in DOMAIN chap[b] : chap[b][i].st = "queued")
              => Cardinality(RunningChapters(b)) = MAX_CHAPTER_WORKERS
    /\ Cardinality(RunningBooks) <= MAX_BOOK_WORKERS
    /\ Cardinality(AllRunningChapters) <= MAX_CHAPTER_WORKERS * Cardinality(RunningBooks)
    /\ Cardinality(AllRunningChapters) <= MAX_BOOK_WORKERS * MAX_CHAPTER_WORKERS
    /\ Cardinality(AllFetchesInFlight) <= MAX_BOOK_WORKERS * MAX_CHAPTER_WORKERS
    /\ book # <<>> =>
          Cardinality(AllFetchesInFlight) <= MAX_CHAPTER_WORKERS * Cardinality(RunningBooks)

\* two books are crawled and more chapter tasks run than one chapter pool holds
C19_Witness ==
    /\ Len(book) = 2
    /\ Cardinality(AllRunningChapters) > MAX_CHAPTER_WORKERS
    /\ Cardinality(AllFetchesInFlight) > MAX_CHAPTER_WORKERS

\* C20: crawlChapterTitle and crawlChapterContent wait after a failed round only if
\* another round remains: no delay follows the last failed round.
C20_NoDelayAfterLastRound ==
    \A b \in DOMAIN chap : \A i \in DOMAIN chap[b] :
        chap[b][i].st \in {"titleSleep", "contentSleep"} => chap[b][i].attempt < RETRY_TIMES

====
